---------------------------- MODULE Spec2Model ----------------------------
(* A model of src/src/pages/InvestmentPipeline.tsx: one browser session of  *)
(* the InvestmentPipeline component, the remote investors collection it     *)
(* subscribes to and writes, and the writes of other sessions to the same   *)
(* collection.                                                              *)
EXTENDS Integers, Sequences, FiniteSets, Bags, TLC

(***************************************************************************)
(* Bounds of the model.                                                    *)
(***************************************************************************)
\* User actions (here and in other sessions) a run is followed for: of the
\* pipeline alone (Spec), of every handler (SpecAll).
MaxActions == 4
MaxAllActions == 2
\* User actions a run of the stage controls with timeouts (SpecStages) is
\* followed for.
MaxStageActions == 3
\* The last reading of Date.now() the model distinguishes.
MaxClock == 2
\* Length up to which a record's comment array is followed.
MaxComments == 3
\* Steps in which the model lets the delay of a timeout pass.
ConfettiTicks == 2
\* User actions a run of the filter and sort controls (SpecView) is followed
\* for, and the largest investment amount a stored record has there.
MaxViewActions == 2
MaxAmount == 2
\* User actions a run of the cards' expansion (SpecCards) is followed for.
MaxCardActions == 3
\* User actions a run of the Add New Investor form (SpecAdd) is followed for.
MaxAddActions == 4

\* Document ids the store hands out (opaque strings), in query order.
IdOrder == <<"d1", "d2">>
Ids == {IdOrder[k] : k \in 1..Len(IdOrder)}
\* Values typed into the name fields, and comment texts typed into a card.
Names == {"n1", "n2"}
Texts == {"t1", "t2"}

NULL == "null"
\* The stored value of a currentStep field that is not a number (typeof
\* data.currentStep !== 'number'); the numbers of the model are >= 0.
NonNumeric == -1

(***************************************************************************)
(* State.                                                                  *)
(***************************************************************************)
VARIABLES
    user,               \* useAuthState(auth): uid of the signed-in user or NULL
    store,              \* users/{uid}/investors: [doc id -> document data]
    usedIds,            \* ids the store has handed out so far
    snapPending,        \* the store changed since the last onSnapshot delivery
    now,                \* Date.now()
    investors,          \* useState<Investor[]>: the local list
    newInvestor,        \* the Add New Investor form
    isLoading,
    error,              \* string or NULL
    editingInvestor,    \* <<>> (null) or <<draft>>
    deleteConfirmation, \* doc id or NULL
    calls,              \* bag of handler invocations awaiting the store
    budget,             \* user actions the run is still followed for
    lost,               \* history: comments a write-back of the whole array
                        \* dropped although it was not about them
    showConfetti,
    timers,             \* pending setTimeout callbacks: ms left of each, oldest first
    portfolioAnalysis,  \* useState<string[]>([]): <<>> or <<result>>
    investmentLikelihood, \* useState<number | null>(null): <<>> or <<result>>
    suggestedActions,   \* useState<string[]>([]): <<>> or <<result>>
    filterStatus,       \* "all", "active", "paused" or "closed"
    sortBy,             \* "name", "company" or "investmentAmount"
    expandedCards,      \* { [id]: boolean }: "true", "false" or UNDEFINED per id
    statsFetches,       \* history: fetchDataRoomStats calls issued, per record id
    lastSaved           \* history: <<>> or <<the draft the store applied last>>

remote == <<store, usedIds, lost, lastSaved>>
ui == <<investors, newInvestor, isLoading, error, editingInvestor,
        deleteConfirmation>>
celebration == <<showConfetti, timers>>
analysis == <<portfolioAnalysis, investmentLikelihood, suggestedActions>>
view == <<filterStatus, sortBy, expandedCards>>
panels == <<celebration, analysis, view>>
vars == <<user, store, usedIds, snapPending, now, investors, newInvestor,
          isLoading, error, editingInvestor, deleteConfirmation, calls,
          budget, lost, showConfetti, timers, portfolioAnalysis,
          investmentLikelihood, suggestedActions, filterStatus, sortBy,
          expandedCards, statsFetches, lastSaved>>

(***************************************************************************)
(* Constants and pure helpers of the component.                            *)
(***************************************************************************)
steps == <<"Initial Contact", "Pitch Deck Review", "First Meeting",
           "Due Diligence", "Term Sheet", "Negotiation", "Closing">>

\* The initial / reset value of the Add New Investor form.
EmptyInvestor ==
    [name |-> "", company |-> "", email |-> "", currentStep |-> 0,
     status |-> "active", investmentAmount |-> 0, comments |-> <<>>]

NoComment == [id |-> 0, text |-> "", date |-> 0]

\* { id: doc.id, ...data, currentStep: typeof ... === 'number' ? ... : 0 }
SnapshotRecord(id, data) ==
    [f \in DOMAIN data \cup {"id", "currentStep"} |->
        CASE f = "id" -> id
          [] f = "currentStep" ->
                IF "currentStep" \in DOMAIN data /\ data.currentStep # NonNumeric
                THEN data.currentStep
                ELSE 0
          [] OTHER -> data[f]]

\* querySnapshot.forEach(...push...): the documents of the collection, in
\* the order of the query (by document id).
QuerySnapshot(st) ==
    LET present == SelectSeq(IdOrder, LAMBDA d : d \in DOMAIN st)
    IN  [k \in 1..Len(present) |-> SnapshotRecord(present[k], st[present[k]])]

\* const { id, ...updateData } = updatedInvestor
UpdateData(inv) == [f \in DOMAIN inv \ {"id"} |-> inv[f]]

\* A handler invocation: which handler, where it stands, and what it holds.
Call(op, pc, id) ==
    [op |-> op, pc |-> pc, id |-> id, step |-> 0, status |-> "active",
     data |-> EmptyInvestor, comment |-> NoComment, commentId |-> 0,
     text |-> "", comments |-> <<>>]

\* One more user action, while the run is followed.
UserActs == budget > 0 /\ budget' = budget - 1
Issue(c) == calls' = calls (+) SetToBag({c})
Retire(c) == calls' = calls (-) SetToBag({c})
Advance(c, d) == calls' = (calls (-) SetToBag({c})) (+) SetToBag({d})

\* if (user) { ... }: a handler called with nobody signed in does nothing.
Handler(c) == IF user # NULL THEN Issue(c) ELSE calls' = calls

(***************************************************************************)
(* The store (Firestore) as the component uses it.  The model follows the  *)
(* committed state of the collection: a write takes effect when the store  *)
(* accepts it, the promise of the call is fulfilled afterwards, and the    *)
(* subscription delivers the latest committed state at some later time.    *)
(***************************************************************************)
Elements(seq) == {seq[k] : k \in 1..Len(seq)}

\* A plausible slip: the field set to the new comment, without arrayUnion.
ArrayOverwrite(arr, c) == <<c>>
\* arrayUnion(newComment): appended unless an equal element is there already.
ArrayUnion(arr, c) ==
    IF \E k \in 1..Len(arr) : arr[k] = c THEN arr ELSE Append(arr, c)

\* addDoc(investorsRef, data): a new document under an id never used before.
AddDoc(st, id, data) ==
    [d \in DOMAIN st \cup {id} |-> IF d = id THEN data ELSE st[d]]

\* deleteDoc(ref): the document is gone; deleting a missing document succeeds.
DeleteDoc(st, id) == [d \in DOMAIN st \ {id} |-> st[d]]

\* updateDoc(ref, { currentStep: newStep })
UpdateStep(st, id, newStep) == [st EXCEPT ![id].currentStep = newStep]
\* updateDoc(ref, { status: newStatus })
UpdateStatus(st, id, newStatus) == [st EXCEPT ![id].status = newStatus]
\* A plausible slip: only the name of the draft is written.
UpdateNameOnly(st, id, data) == [st EXCEPT ![id].name = data.name]
\* updateDoc(ref, updateData): every field of the draft but its id
UpdateAll(st, id, data) == [st EXCEPT ![id] = data]
\* updateDoc(ref, { comments: arrayUnion(newComment) })
UpdateCommentsUnion(st, id, c) ==
    [st EXCEPT ![id].comments = ArrayUnion(st[id].comments, c)]
\* A plausible slip: the array written with arrayUnion(...updatedComments).
UpdateCommentsMerged(st, id, cs) ==
    [st EXCEPT ![id].comments =
        st[id].comments \o SelectSeq(cs, LAMBDA x : x \notin Elements(st[id].comments))]
\* updateDoc(ref, { comments: updatedComments })
UpdateComments(st, id, cs) == [st EXCEPT ![id].comments = cs]

\* investorDoc.data()?.comments || []
CurrentComments(st, id) == IF id \in DOMAIN st THEN st[id].comments ELSE <<>>

\* What the store holds once it has accepted the write of invocation c.
StoreAfter(st, c, newId) ==
    CASE c.op = "add"        -> AddDoc(st, newId, c.data)
      [] c.op = "step"       -> UpdateStep(st, c.id, c.step)
      [] c.op = "status"     -> UpdateStatus(st, c.id, c.status)
      [] c.op = "delete"     -> DeleteDoc(st, c.id)
      [] c.op = "edit"       -> UpdateAll(st, c.id, c.data)
      [] c.op = "addComment" -> UpdateCommentsUnion(st, c.id, c.comment)
      [] c.op = "updComment" -> UpdateComments(st, c.id, c.comments)
      [] c.op = "delComment" -> UpdateComments(st, c.id, c.comments)

\* updateDoc needs the document to exist; addDoc needs a fresh id; the model
\* follows a comment array up to MaxComments elements.
Acceptable(st, c, newId) ==
    /\ c.op = "add" => newId \in Ids \ usedIds
    /\ c.op \notin {"add", "delete"} => c.id \in DOMAIN st
    /\ c.op = "addComment" /\ c.id \in DOMAIN st =>
           Len(ArrayUnion(st[c.id].comments, c.comment)) <= MaxComments

(***************************************************************************)
(* What a card and the dialogs show and start.                             *)
(***************************************************************************)
\* disabled={investor.currentStep === 0}
PreviousStepDisabled(inv) == inv.currentStep = 0
\* disabled={investor.currentStep === steps.length - 1}
NextStepDisabled(inv) == inv.currentStep = Len(steps) - 1

\* onClick of Previous Step: the step handed to handleUpdateInvestorStep
\* (<<>> when the handler of the click calls nothing).
PreviousStepTarget(inv) ==
    IF inv.currentStep > 0 THEN <<inv.currentStep - 1>> ELSE <<>>
\* onClick of Next Step
NextStepTarget(inv) ==
    IF inv.currentStep < Len(steps) - 1 THEN <<inv.currentStep + 1>> ELSE <<>>

\* A plausible slip: the Next Step button without its boundary checks.
NextStepClickUnguarded(inv) == <<inv.currentStep + 1>>
\* The Next Step button: what a click hands to handleUpdateInvestorStep
\* (<<>>: nothing, the button is disabled or its handler calls nothing).
NextStepClick(inv) ==
    IF NextStepDisabled(inv) THEN <<>> ELSE NextStepTarget(inv)

\* A plausible slip: the Previous Step button without its boundary checks.
PreviousStepClickUnguarded(inv) == <<inv.currentStep - 1>>
\* The Previous Step button
PreviousStepClick(inv) ==
    IF PreviousStepDisabled(inv) THEN <<>> ELSE PreviousStepTarget(inv)

\* A plausible slip: the celebration started by every step write.
IsAnyStep(newStep) == TRUE
\* newStep === steps.length - 1
IsFinalStep(newStep) == newStep = Len(steps) - 1
\* The delay handed to setTimeout(() => setShowConfetti(false), 5000), in ms.
ConfettiMs == 5000

\* investor.status === 'active' ? 'paused' : 'active'
ToggledStatus(inv) == IF inv.status = "active" THEN "paused" ELSE "active"

\* String.prototype.trim on the texts the model types.
TypedTexts == {"", " ", "t1", " t2 "}
\* A plausible slip: the text used as typed.
NoTrim(t) == t
Trim(t) == CASE t = " " -> "" [] t = " t2 " -> "t2" [] OTHER -> t

\* Plausible slips: catch blocks that only log; one message for all.
ErrorMessageNone(op) == NULL
ErrorMessageShared(op) == "Something went wrong. Please try again."
\* The message each catch block hands to setError.
ErrorMessage(op) ==
    CASE op = "add"        -> "Failed to add investor. Please try again."
      [] op = "step"       -> "Failed to update investor step. Please try again."
      [] op = "status"     -> "Failed to update investor status. Please try again."
      [] op = "delete"     -> "Failed to delete investor. Please try again."
      [] op = "edit"       -> "Failed to update investor. Please try again."
      [] op = "addComment" -> "Failed to add comment. Please try again."
      [] op = "updComment" -> "Failed to update comment. Please try again."
      [] op = "delComment" -> "Failed to delete comment. Please try again."

\* A plausible slip: the filter written with === for !==.
OnlyInvestor(list, id) == SelectSeq(list, LAMBDA inv : inv.id = id)
\* prevInvestors.filter((investor) => investor.id !== investorId)
WithoutInvestor(list, id) == SelectSeq(list, LAMBDA inv : inv.id # id)
\* prevInvestors.map((investor) => investor.id === updated.id ? updated : investor)
WithInvestor(list, updated) ==
    [k \in 1..Len(list) |-> IF list[k].id = updated.id THEN updated ELSE list[k]]

\* currentComments.map((c) => c.id === commentId ? { ...c, text: newText } : c)
WithCommentText(cs, commentId, newText) ==
    [k \in 1..Len(cs) |->
        IF cs[k].id = commentId THEN [cs[k] EXCEPT !.text = newText] ELSE cs[k]]
\* currentComments.filter((c) => c.id !== commentId)
WithoutComment(cs, commentId) == SelectSeq(cs, LAMBDA c : c.id # commentId)

\* The values of the Filter by Status and Sort by selects.
FilterValues == {"all", "active", "paused", "closed"}
SortKeys == {"name", "company", "investmentAmount"}

\* A plausible slip: the list shown whatever the filter.
Unfiltered(list, fs) == list
\* investors.filter((investor) =>
\*     filterStatus === 'all' ? true : investor.status === filterStatus)
Filter(list, fs) ==
    SelectSeq(list, LAMBDA inv : IF fs = "all" THEN TRUE ELSE inv.status = fs)

\* The strings of the model in the order of String.prototype.localeCompare.
Collation == <<"", "c1", "c2", "e1", "n1", "n2">>
LocaleRank(str) == CHOOSE k \in 1..Len(Collation) : Collation[k] = str
\* a.localeCompare(b): negative, zero or positive
LocaleCompare(a, b) == LocaleRank(a) - LocaleRank(b)

\* investor.investmentAmount || 0
AmountOrZero(inv) ==
    IF "investmentAmount" \in DOMAIN inv THEN inv.investmentAmount ELSE 0
\* A plausible slip: the amounts compared in ascending order.
AmountAscending(a, b) == AmountOrZero(a) - AmountOrZero(b)
\* (b.investmentAmount || 0) - (a.investmentAmount || 0)
AmountDescending(a, b) == AmountOrZero(b) - AmountOrZero(a)

\* The compare function handed to sort, for the sort key chosen.
Compare(a, b, key) ==
    CASE key = "name"             -> LocaleCompare(a.name, b.name)
      [] key = "company"          -> LocaleCompare(a.company, b.company)
      [] key = "investmentAmount" -> AmountDescending(a, b)
      [] OTHER                    -> 0

\* Array.prototype.sort(compareFn) on the array it is called on: a stable
\* sort, computed by insertion from the left.
Inserted(sorted, x, key) ==
    LET after == {k \in 1..Len(sorted) : Compare(sorted[k], x, key) > 0}
        at == IF after = {} THEN Len(sorted) + 1
              ELSE CHOOSE k \in after : \A j \in after : k <= j
    IN  SubSeq(sorted, 1, at - 1) \o <<x>> \o SubSeq(sorted, at, Len(sorted))
RECURSIVE Sort(_, _)
Sort(list, key) ==
    IF list = <<>> THEN <<>>
    ELSE Inserted(Sort(SubSeq(list, 1, Len(list) - 1), key), list[Len(list)], key)

\* What a render computes: the copy filter returns, and that copy sorted.
filteredInvestors == Filter(investors, filterStatus)
sortedInvestors == Sort(filteredInvestors, sortBy)

\* The value of a key an object does not have.
UNDEFINED == "undefined"
\* expanded={expandedCards[investor.id] || false}
ExpandedIn(cards, id) == cards[id] = "true"

\* A plausible slip: the new object built without ...prev.
ToggledAlone(prev, id) ==
    [d \in DOMAIN prev |->
        IF d = id THEN (IF prev[d] = "true" THEN "false" ELSE "true")
        ELSE UNDEFINED]
\* { ...prev, [investorId]: !prev[investorId] }
Toggled(prev, id) ==
    [prev EXCEPT ![id] = IF prev[id] = "true" THEN "false" ELSE "true"]

\* InvestorCard is defined in the body of InvestmentPipeline, so every render
\* of InvestmentPipeline hands React a new component type: the cards of the
\* render before are unmounted and the cards displayed are mounted anew, and
\* the effect of a card mounted with expanded = true calls
\* fetchDataRoomStats(investor.id).
CardsMount ==
    statsFetches' =
        [d \in Ids |->
            IF /\ ExpandedIn(expandedCards', d)
               /\ \E k \in 1..Len(sortedInvestors') : sortedInvestors'[k].id = d
            THEN statsFetches[d] + 1
            ELSE statsFetches[d]]
\* A state setter re-renders InvestmentPipeline when the state it sets changes.
Renders(changed) == IF changed THEN CardsMount ELSE UNCHANGED statsFetches

(***************************************************************************)
(* User actions of this session.                                           *)
(***************************************************************************)
\* handleUpdateInvestorStep(investorId, newStep) up to its await
CallUpdateInvestorStep(id, newStep) ==
    Handler([Call("step", "sent", id) EXCEPT !.step = newStep])

ClickPreviousStep(i) ==
    /\ UserActs
    /\ i \in 1..Len(investors)
    /\ IF PreviousStepClick(investors[i]) = <<>>
       THEN calls' = calls
       ELSE CallUpdateInvestorStep(investors[i].id, PreviousStepClick(investors[i])[1])
    /\ UNCHANGED <<user, panels, statsFetches, remote, snapPending, now, ui>>

ClickNextStep(i) ==
    /\ UserActs
    /\ i \in 1..Len(investors)
    /\ IF NextStepClick(investors[i]) = <<>>
       THEN calls' = calls
       ELSE CallUpdateInvestorStep(investors[i].id, NextStepClick(investors[i])[1])
    /\ UNCHANGED <<user, panels, statsFetches, remote, snapPending, now, ui>>

\* Pause / Activate: handleUpdateInvestorStatus up to its await
ClickToggleStatus(i) ==
    /\ UserActs
    /\ i \in 1..Len(investors)
    /\ Handler([Call("status", "sent", investors[i].id)
                 EXCEPT !.status = ToggledStatus(investors[i])])
    /\ UNCHANGED <<user, panels, statsFetches, remote, snapPending, now, ui>>

\* Typing into the Add New Investor form.
TypeNewInvestor(n, c, e) ==
    /\ UserActs
    /\ newInvestor' = [newInvestor EXCEPT !.name = n, !.company = c, !.email = e]
    /\ newInvestor' # newInvestor
    /\ UNCHANGED <<user, panels, remote, snapPending, now, investors, isLoading, error,
                   editingInvestor, deleteConfirmation, calls>>
    /\ CardsMount

\* A plausible slip: the button disabled by the empty fields alone.
AddInvestorDisabledByFields ==
    newInvestor.name = "" \/ newInvestor.company = "" \/ newInvestor.email = ""
\* disabled={isLoading || !name || !company || !email}
AddInvestorDisabled ==
    \/ isLoading
    \/ newInvestor.name = "" \/ newInvestor.company = "" \/ newInvestor.email = ""

\* Add Investor: handleAddInvestor up to its await
ClickAddInvestor ==
    /\ UserActs
    /\ ~AddInvestorDisabled
    /\ isLoading' = (user # NULL)
    /\ Handler([Call("add", "sent", NULL) EXCEPT !.data = newInvestor])
    /\ UNCHANGED <<user, panels, remote, snapPending, now, investors, newInvestor, error,
                   editingInvestor, deleteConfirmation>>
    /\ Renders(isLoading' # isLoading)

\* Delete on a card: setDeleteConfirmation(investor.id)
ClickDelete(i) ==
    /\ UserActs
    /\ i \in 1..Len(investors)
    /\ deleteConfirmation' = investors[i].id
    /\ UNCHANGED <<user, panels, remote, snapPending, now, investors, newInvestor,
                   isLoading, error, editingInvestor, calls>>
    /\ Renders(deleteConfirmation' # deleteConfirmation)

\* Cancel / onClose of the Confirm Deletion dialog
CancelDelete ==
    /\ UserActs
    /\ deleteConfirmation # NULL
    /\ deleteConfirmation' = NULL
    /\ UNCHANGED <<user, panels, remote, snapPending, now, investors, newInvestor,
                   isLoading, error, editingInvestor, calls>>
    /\ CardsMount

\* Delete of the dialog: handleDeleteInvestor up to its await, then
\* setDeleteConfirmation(null)
ConfirmDelete ==
    /\ UserActs
    /\ deleteConfirmation # NULL
    /\ Handler(Call("delete", "sent", deleteConfirmation))
    /\ deleteConfirmation' = NULL
    /\ UNCHANGED <<user, panels, remote, snapPending, now, investors, newInvestor,
                   isLoading, error, editingInvestor>>
    /\ CardsMount

\* Edit on a card: setEditingInvestor(investor)
ClickEdit(i) ==
    /\ UserActs
    /\ i \in 1..Len(investors)
    /\ editingInvestor' = <<investors[i]>>
    /\ UNCHANGED <<user, panels, remote, snapPending, now, investors, newInvestor,
                   isLoading, error, deleteConfirmation, calls>>
    /\ Renders(editingInvestor' # editingInvestor)

\* Typing into the Investor Name field of the Edit Investor dialog
TypeEditName(n) ==
    /\ UserActs
    /\ editingInvestor # <<>>
    /\ editingInvestor' = <<[editingInvestor[1] EXCEPT !.name = n]>>
    /\ editingInvestor' # editingInvestor
    /\ UNCHANGED <<user, panels, remote, snapPending, now, investors, newInvestor,
                   isLoading, error, deleteConfirmation, calls>>
    /\ CardsMount

\* Cancel / onClose of the Edit Investor dialog
CancelEdit ==
    /\ UserActs
    /\ editingInvestor # <<>>
    /\ editingInvestor' = <<>>
    /\ UNCHANGED <<user, panels, remote, snapPending, now, investors, newInvestor,
                   isLoading, error, deleteConfirmation, calls>>
    /\ CardsMount

\* Save of the dialog: handleEditInvestor(editingInvestor) up to its await
SaveEdit ==
    /\ UserActs
    /\ editingInvestor # <<>>
    /\ Handler([Call("edit", "sent", editingInvestor[1].id)
                 EXCEPT !.data = UpdateData(editingInvestor[1])])
    /\ UNCHANGED <<user, panels, statsFetches, remote, snapPending, now, ui>>

\* handleCommentSubmit with the text t in the new-comment field:
\* handleAddComment(investor.id, t.trim()) up to its await
CommentSubmit(i, t) ==
    /\ UserActs
    /\ i \in 1..Len(investors)
    /\ IF Trim(t) # ""
       THEN Handler([Call("addComment", "sent", investors[i].id)
                         EXCEPT !.comment = [id |-> now, text |-> Trim(t),
                                             date |-> now]])
       ELSE calls' = calls
    /\ UNCHANGED <<user, panels, statsFetches, remote, snapPending, now, ui>>

\* Edit on comment k, the text t typed, Save: handleSaveEditedComment, that is
\* handleUpdateComment(investor.id, editingCommentId, t.trim()) up to getDoc
SaveEditedComment(i, k, t) ==
    /\ UserActs
    /\ i \in 1..Len(investors)
    /\ k \in 1..Len(investors[i].comments)
    /\ IF Trim(t) # ""
       THEN Handler([Call("updComment", "read", investors[i].id)
                         EXCEPT !.commentId = investors[i].comments[k].id,
                                !.text = Trim(t)])
       ELSE calls' = calls
    /\ UNCHANGED <<user, panels, statsFetches, remote, snapPending, now, ui>>

\* Delete on comment k: handleDeleteComment(investor.id, comment.id) up to getDoc
ClickDeleteComment(i, k) ==
    /\ UserActs
    /\ i \in 1..Len(investors)
    /\ k \in 1..Len(investors[i].comments)
    /\ Handler([Call("delComment", "read", investors[i].id)
                 EXCEPT !.commentId = investors[i].comments[k].id])
    /\ UNCHANGED <<user, panels, statsFetches, remote, snapPending, now, ui>>

\* The expand button of card i: onToggleExpand, toggleCardExpansion(investor.id)
ToggleCardExpansion(i) ==
    /\ UserActs
    /\ i \in 1..Len(sortedInvestors)
    /\ expandedCards' = Toggled(expandedCards, sortedInvestors[i].id)
    /\ UNCHANGED <<user, celebration, analysis, filterStatus, sortBy, remote,
                   snapPending, now, ui, calls>>
    /\ CardsMount

\* Filter by Status: setFilterStatus(e.target.value)
SetFilterStatus(fs) ==
    /\ UserActs
    /\ fs \in FilterValues \ {filterStatus}
    /\ filterStatus' = fs
    /\ UNCHANGED <<user, celebration, analysis, sortBy, expandedCards,
                   remote, snapPending, now, ui, calls>>
    /\ CardsMount

\* Sort by: setSortBy(e.target.value)
SetSortBy(key) ==
    /\ UserActs
    /\ key \in SortKeys \ {sortBy}
    /\ sortBy' = key
    /\ UNCHANGED <<user, celebration, analysis, filterStatus, expandedCards,
                   remote, snapPending, now, ui, calls>>
    /\ CardsMount

(***************************************************************************)
(* The store answering, and the handlers going on after their awaits.      *)
(***************************************************************************)
\* The array a comment edit or delete writes back, from the array it read.
UpdatedComments(c, currentComments) ==
    IF c.op = "updComment"
    THEN WithCommentText(currentComments, c.commentId, c.text)
    ELSE WithoutComment(currentComments, c.commentId)

\* await getDoc(investorRef) returns; updateDoc(ref, { comments }) is sent.
GetDocReturns(c) ==
    /\ c \in BagToSet(calls)
    /\ c.pc = "read"
    /\ Advance(c, [c EXCEPT !.pc = "sent",
                     !.comments = UpdatedComments(c, CurrentComments(store, c.id))])
    /\ UNCHANGED <<user, panels, statsFetches, remote, snapPending, now, ui, budget>>

\* The comments that are stored when the write-back of c arrives, are not the
\* comment c is about, and are not in the array c writes.
Dropped(st, c) ==
    IF c.op \in {"updComment", "delComment"} /\ c.id \in DOMAIN st
    THEN {x \in Elements(st[c.id].comments) :
             x.id # c.commentId /\ x \notin Elements(c.comments)}
    ELSE {}

\* A record with the id of its document: the draft handleEditInvestor holds.
WithId(id, data) ==
    [f \in DOMAIN data \cup {"id"} |-> IF f = "id" THEN id ELSE data[f]]

\* The store commits the write of invocation c; its promise is fulfilled.
StoreAccepts(c) ==
    /\ c \in BagToSet(calls)
    /\ c.pc = "sent"
    /\ \E newId \in IF c.op = "add" THEN Ids \ usedIds ELSE {NULL} :
          /\ Acceptable(store, c, newId)
          /\ store' = StoreAfter(store, c, newId)
          /\ usedIds' = IF c.op = "add" THEN usedIds \cup {newId} ELSE usedIds
    /\ snapPending' = (snapPending \/ store' # store)
    /\ lost' = lost \cup Dropped(store, c)
    /\ lastSaved' = IF c.op = "edit" THEN <<WithId(c.id, c.data)>> ELSE lastSaved
    /\ Advance(c, [c EXCEPT !.pc = "resolved"])
    /\ UNCHANGED <<user, panels, statsFetches, now, ui, budget>>

\* The local list after the statements that follow the await of c's handler.
InvestorsAfter(list, c) ==
    CASE c.op = "delete" -> WithoutInvestor(list, c.id)
      [] c.op = "edit"   -> WithInvestor(list, WithId(c.id, c.data))
      [] OTHER           -> list

\* The awaits of handleEditInvestor that follow its write, in order.
AIPhases == <<"portfolio", "likelihood", "actions">>
AwaitsAI(c) == \E k \in 1..Len(AIPhases) : c.pc = AIPhases[k]
PhaseAfter(pc) ==
    CASE pc = "portfolio"  -> "likelihood"
      [] pc = "likelihood" -> "actions"

\* The handler of c runs on after its fulfilled await: to its end, or, in
\* handleEditInvestor, to await analyzeInvestorPortfolio(updatedInvestor).
Continues(c) ==
    /\ c \in BagToSet(calls)
    /\ c.pc = "resolved"
    /\ IF c.op = "edit"
       THEN Advance(c, [c EXCEPT !.pc = AIPhases[1]])
       ELSE Retire(c)
    /\ investors' = InvestorsAfter(investors, c)
    /\ editingInvestor' = IF c.op = "edit" THEN <<>> ELSE editingInvestor
    /\ newInvestor' = IF c.op = "add" THEN EmptyInvestor ELSE newInvestor
    /\ isLoading' = IF c.op = "add" THEN FALSE ELSE isLoading
    /\ IF c.op = "step" /\ IsFinalStep(c.step)
       THEN /\ showConfetti' = TRUE
            /\ timers' = Append(timers, ConfettiMs)
       ELSE UNCHANGED celebration
    /\ UNCHANGED <<user, analysis, view, remote, snapPending,
                   now, error, deleteConfirmation, budget>>
    /\ Renders(\/ c.op \in {"add", "delete", "edit"}
               \/ showConfetti' # showConfetti)

\* The store rejects the read or write c awaits: the catch block runs (and,
\* for an add, the finally block).
StoreRejects(c) ==
    /\ c \in BagToSet(calls)
    /\ c.pc \in {"sent", "read"}
    /\ Retire(c)
    /\ error' = ErrorMessage(c.op)
    /\ isLoading' = IF c.op = "add" THEN FALSE ELSE isLoading
    /\ UNCHANGED <<user, panels, remote, snapPending, now, investors, newInvestor,
                   editingInvestor, deleteConfirmation, budget>>
    /\ Renders(error' # error \/ isLoading' # isLoading)

(***************************************************************************)
(* The AI service (../services/ai) as handleEditInvestor uses it: three    *)
(* request/response operations over the saved record.  What an operation   *)
(* returns is followed by the operation and the record it was asked about. *)
(***************************************************************************)
analyzeInvestorPortfolio(inv) ==
    [service |-> "analyzeInvestorPortfolio", of |-> inv]
predictInvestmentLikelihood(inv) ==
    [service |-> "predictInvestmentLikelihood", of |-> inv]
suggestNextActions(inv, step) ==
    [service |-> "suggestNextActions", of |-> inv, step |-> step]

\* The AI call invocation c awaits returns: the setter after the await runs,
\* and the handler goes on to its next await or to its end.
AIReturns(c) ==
    /\ c \in BagToSet(calls)
    /\ AwaitsAI(c)
    /\ LET updatedInvestor == WithId(c.id, c.data)
       IN  /\ portfolioAnalysis' =
                 IF c.pc = "portfolio"
                 THEN <<analyzeInvestorPortfolio(updatedInvestor)>>
                 ELSE portfolioAnalysis
           /\ investmentLikelihood' =
                 IF c.pc = "likelihood"
                 THEN <<predictInvestmentLikelihood(updatedInvestor)>>
                 ELSE investmentLikelihood
           /\ suggestedActions' =
                 IF c.pc = "actions"
                 THEN <<suggestNextActions(updatedInvestor,
                                           updatedInvestor.currentStep)>>
                 ELSE suggestedActions
    /\ IF c.pc = "actions"
       THEN Retire(c)
       ELSE Advance(c, [c EXCEPT !.pc = PhaseAfter(c.pc)])
    /\ UNCHANGED <<user, celebration, view, remote, snapPending,
                   now, ui, budget>>
    /\ CardsMount

\* The AI call invocation c awaits is rejected: the catch block of
\* handleEditInvestor runs.
AIRejects(c) ==
    /\ c \in BagToSet(calls)
    /\ AwaitsAI(c)
    /\ Retire(c)
    /\ error' = ErrorMessage(c.op)
    /\ UNCHANGED <<user, panels, remote, snapPending, now,
                   investors, newInvestor, isLoading, editingInvestor,
                   deleteConfirmation, budget>>
    /\ Renders(error' # error)

\* onSnapshot's callback: setInvestors(investorList)
SnapshotDelivered ==
    /\ user # NULL
    /\ snapPending
    /\ investors' = QuerySnapshot(store)
    /\ snapPending' = FALSE
    /\ UNCHANGED <<user, panels, remote, now, newInvestor, isLoading, error,
                   editingInvestor, deleteConfirmation, calls, budget>>
    /\ CardsMount

\* Time passes.
Tick ==
    /\ now < MaxClock
    /\ now' = now + 1
    /\ UNCHANGED <<user, panels, statsFetches, remote, snapPending, ui, calls, budget>>

\* The time the model lets pass in one step.
TickMs == ConfettiMs \div ConfettiTicks
Min(a, b) == IF a <= b THEN a ELSE b

\* Time passes, up to the moment the oldest pending timeout is due; a
\* timeout that is due runs before more time passes.
Elapse ==
    /\ timers # <<>>
    /\ Head(timers) > 0
    /\ timers' = [k \in 1..Len(timers) |->
                     timers[k] - Min(TickMs, Head(timers))]
    /\ UNCHANGED <<user, analysis, view, statsFetches, remote, snapPending,
                   now, ui, calls, budget, showConfetti>>

\* The callback of a setTimeout that is due: setShowConfetti(false)
ConfettiTimeout ==
    /\ timers # <<>>
    /\ Head(timers) = 0
    /\ timers' = Tail(timers)
    /\ showConfetti' = FALSE
    /\ UNCHANGED <<user, analysis, view, remote, snapPending,
                   now, ui, calls, budget>>
    /\ Renders(showConfetti' # showConfetti)

(***************************************************************************)
(* Other sessions of the same user, running the same component: each shows *)
(* some earlier state of the collection and its writes reach the store at  *)
(* any time.                                                               *)
(***************************************************************************)
RemoteWrite(st) ==
    /\ UserActs
    /\ store' = st
    /\ snapPending' = (snapPending \/ st # store)
    /\ UNCHANGED <<user, panels, statsFetches, usedIds, lost, lastSaved, now, ui,
                   calls>>

\* Another session shows step d for document id and clicks Next / Previous.
RemoteNextStep(id, d) ==
    /\ id \in DOMAIN store
    /\ NextStepClick([currentStep |-> d]) # <<>>
    /\ RemoteWrite(UpdateStep(store, id, NextStepClick([currentStep |-> d])[1]))

RemotePreviousStep(id, d) ==
    /\ id \in DOMAIN store
    /\ PreviousStepClick([currentStep |-> d]) # <<>>
    /\ RemoteWrite(UpdateStep(store, id, PreviousStepClick([currentStep |-> d])[1]))

\* Another session adds a comment; t is the reading of its clock.
RemoteAddComment(id, text, t) ==
    /\ id \in DOMAIN store
    /\ LET c == [id |-> t, text |-> text, date |-> t]
       IN  /\ Len(ArrayUnion(store[id].comments, c)) <= MaxComments
           /\ RemoteWrite(UpdateCommentsUnion(store, id, c))

(***************************************************************************)
(* Initial states and specifications.                                      *)
(***************************************************************************)
\* A document as an earlier session of the component stored it.
StoredInvestor(step, comments) ==
    [name |-> "n1", company |-> "c1", email |-> "e1", currentStep |-> step,
     status |-> "active", investmentAmount |-> 0, comments |-> comments]

\* The component right after it is mounted for a signed-in user, over the
\* collection st at time t: nothing delivered yet, every piece of state at
\* its useState initial value.
MountedFor(u, st, t, b) ==
    /\ user = u
    /\ store = st
    /\ usedIds = DOMAIN st
    /\ snapPending = TRUE
    /\ now = t
    /\ investors = <<>>
    /\ newInvestor = EmptyInvestor
    /\ isLoading = FALSE
    /\ error = NULL
    /\ editingInvestor = <<>>
    /\ deleteConfirmation = NULL
    /\ calls = EmptyBag
    /\ budget = b
    /\ lost = {}
    /\ showConfetti = FALSE
    /\ timers = <<>>
    /\ portfolioAnalysis = <<>>
    /\ investmentLikelihood = <<>>
    /\ suggestedActions = <<>>
    /\ filterStatus = "all"
    /\ sortBy = "name"
    /\ expandedCards = [d \in Ids |-> UNDEFINED]
    /\ statsFetches = [d \in Ids |-> 0]
    /\ lastSaved = <<>>

\* The component mounted for the signed-in user of the model.
Mounted(st, t, b) == MountedFor("u1", st, t, b)

StepRange == 0..(Len(steps) - 1)
Cards == 1..Len(IdOrder)
\* A comment made before the component was mounted.
OldComment == [id |-> 0, text |-> "t0", date |-> 0]

StoreAnswers ==
    \/ \E c \in BagToSet(calls) : StoreAccepts(c)
    \/ \E c \in BagToSet(calls) : Continues(c)
    \/ \E c \in BagToSet(calls) : AIReturns(c)
    \/ SnapshotDelivered

Timeouts ==
    \/ Elapse
    \/ ConfettiTimeout

PipelineActions ==
    \/ \E i \in Cards : ClickPreviousStep(i)
    \/ \E i \in Cards : ClickNextStep(i)
    \/ TypeNewInvestor("n2", "c1", "e1")
    \/ ClickAddInvestor
    \/ \E i \in Cards : ClickDelete(i)
    \/ CancelDelete
    \/ ConfirmDelete
    \/ \E i \in Cards : ClickEdit(i)
    \/ \E n \in Names : TypeEditName(n)
    \/ CancelEdit
    \/ SaveEdit
    \/ \E id \in Ids, d \in StepRange : RemoteNextStep(id, d)
    \/ \E id \in Ids, d \in StepRange : RemotePreviousStep(id, d)

CommentActions ==
    \/ \E i \in Cards, t \in TypedTexts : CommentSubmit(i, t)
    \/ \E i \in Cards, k \in 1..MaxComments, t \in TypedTexts :
          SaveEditedComment(i, k, t)
    \/ \E i \in Cards, k \in 1..MaxComments : ClickDeleteComment(i, k)
    \/ \E c \in BagToSet(calls) : GetDocReturns(c)
    \/ \E id \in Ids, t \in Texts, r \in 0..MaxClock : RemoteAddComment(id, t, r)
    \/ Tick

\* The pipeline: one stored record at any stage; stage clicks here and in
\* other sessions, adds, deletes, edit saves, subscription deliveries.
Init ==
    \E s \in StepRange :
        Mounted([d \in {"d1"} |-> StoredInvestor(s, <<>>)], 1, MaxActions)
Next == PipelineActions \/ StoreAnswers
Spec == Init /\ [][Next]_vars

\* Every handler, and the store rejecting what it is asked; the stored record
\* holds a comment.
InitAll ==
    Mounted([d \in {"d1"} |-> StoredInvestor(5, <<OldComment>>)], 1,
            MaxAllActions)
NextAll ==
    \/ PipelineActions
    \/ \E i \in Cards : ClickToggleStatus(i)
    \/ CommentActions
    \/ StoreAnswers
    \/ \E c \in BagToSet(calls) : StoreRejects(c)
    \/ \E c \in BagToSet(calls) : AIRejects(c)
SpecAll == InitAll /\ [][NextAll]_vars

\* The stage controls and the celebration: two stored records one stage
\* before the last; stage clicks, the store applying or rejecting the
\* writes, subscription deliveries, and time passing.
InitStages ==
    Mounted([d \in Ids |-> StoredInvestor(Len(steps) - 2, <<>>)], 1,
            MaxStageActions)
NextStages ==
    \/ \E i \in Cards : ClickPreviousStep(i)
    \/ \E i \in Cards : ClickNextStep(i)
    \/ \E c \in BagToSet(calls) : StoreAccepts(c)
    \/ \E c \in BagToSet(calls) : Continues(c)
    \/ \E c \in BagToSet(calls) : StoreRejects(c)
    \/ SnapshotDelivered
    \/ Timeouts
SpecStages == InitStages /\ [][NextStages]_vars

\* A stored record with name n, company c, status st and investment amount
\* a (<<>>: the document has no investmentAmount field).
ViewInvestor(n, c, st, a) ==
    LET base == [name |-> n, company |-> c, email |-> "e1", currentStep |-> 0,
                 status |-> st, comments |-> <<>>]
    IN  IF a = <<>> THEN base
        ELSE [f \in DOMAIN base \cup {"investmentAmount"} |->
                 IF f = "investmentAmount" THEN a[1] ELSE base[f]]
StoredAmounts == {<<>>} \cup {<<a>> : a \in 0..MaxAmount}
ViewInvestors ==
    {ViewInvestor(n, c, st, a) :
        n \in Names, c \in {"c1", "c2"}, st \in FilterValues \ {"all"},
        a \in StoredAmounts}

\* The list controls: any two stored records; the subscription delivers
\* them, and the filter and the sort key are chosen.
InitView ==
    \E st \in [Ids -> ViewInvestors] : Mounted(st, 1, MaxViewActions)
NextView ==
    \/ \E fs \in FilterValues : SetFilterStatus(fs)
    \/ \E key \in SortKeys : SetSortBy(key)
    \/ SnapshotDelivered
SpecView == InitView /\ [][NextView]_vars

\* The cards: two stored records; cards are expanded and collapsed, the form
\* is typed into, a stage is clicked and the store applies or rejects the
\* write, and the subscription delivers.
InitCards ==
    Mounted([d \in Ids |-> StoredInvestor(0, <<>>)], 1, MaxCardActions)
NextCards ==
    \/ \E i \in Cards : ToggleCardExpansion(i)
    \/ TypeNewInvestor("n2", "c1", "e1")
    \/ \E i \in Cards : ClickNextStep(i)
    \/ \E c \in BagToSet(calls) : StoreAccepts(c)
    \/ \E c \in BagToSet(calls) : Continues(c)
    \/ \E c \in BagToSet(calls) : StoreRejects(c)
    \/ SnapshotDelivered
SpecCards == InitCards /\ [][NextCards]_vars

\* The Add New Investor form, with a user signed in or with nobody: the
\* fields are typed into and cleared, Add Investor is clicked, the store
\* applies or rejects the write, and the subscription delivers.
InitAdd ==
    \E u \in {"u1", NULL} :
        MountedFor(u, [d \in {"d1"} |-> StoredInvestor(0, <<>>)], 1,
                   MaxAddActions)
NextAdd ==
    \/ \E n \in {"", "n2"}, c \in {"", "c1"}, e \in {"", "e1"} :
          TypeNewInvestor(n, c, e)
    \/ ClickAddInvestor
    \/ \E c \in BagToSet(calls) : StoreAccepts(c)
    \/ \E c \in BagToSet(calls) : Continues(c)
    \/ \E c \in BagToSet(calls) : StoreRejects(c)
    \/ SnapshotDelivered
SpecAdd == InitAdd /\ [][NextAdd]_vars

(***************************************************************************)
(* Properties.                                                             *)
(***************************************************************************)
Abs(x) == IF x < 0 THEN -x ELSE x
Resolved(op) == {c \in BagToSet(calls) : c.op = op /\ c.pc = "resolved"}

\* C1: in every reachable state every investor record, in the store and in
\* the local list, has its currentStep in 0..6.
C1_StepInRange ==
    /\ \A d \in DOMAIN store : store[d].currentStep \in 0..6
    /\ \A i \in 1..Len(investors) : investors[i].currentStep \in 0..6

\* A Next Step click has brought a record to the last stage, an added record
\* is stored, and the local list shows both.
C1_Witness ==
    /\ \E c \in Resolved("step") :
          /\ c.step = 6
          /\ c.id \in DOMAIN store /\ store[c.id].currentStep = 6
          /\ \E i \in 1..Len(investors) :
                investors[i].id = c.id /\ investors[i].currentStep = 6
    /\ Resolved("add") # {}
    /\ Len(investors) = 2

\* C2: every stage write the store applies moves the stored currentStep of its
\* record by exactly one step from the value stored at that moment, and
\* changes the currentStep of no other record.
C2_MovesByOneStep ==
    [][\A c \in BagToSet(calls) :
          (c.op = "step" /\ StoreAccepts(c)) =>
             /\ Abs(store'[c.id].currentStep - store[c.id].currentStep) = 1
             /\ \A d \in DOMAIN store \ {c.id} :
                   store'[d].currentStep = store[d].currentStep]_vars

\* C3: Previous Step is disabled exactly when the displayed currentStep is 0,
\* Next Step exactly when it is 6, and a click at a boundary sends nothing to
\* the store.
C3_DisabledAtBoundaries ==
    /\ [](\A i \in 1..Len(investors) :
             /\ PreviousStepDisabled(investors[i]) <=> investors[i].currentStep = 0
             /\ NextStepDisabled(investors[i]) <=> investors[i].currentStep = 6)
    /\ [][\A i \in 1..Len(investors) :
             /\ (ClickPreviousStep(i) /\ investors[i].currentStep = 0) =>
                   (calls' = calls /\ store' = store)
             /\ (ClickNextStep(i) /\ investors[i].currentStep = 6) =>
                   (calls' = calls /\ store' = store)]_vars

\* The list shows one record at the first stage and one at the last, both
\* boundaries' controls disabled, after user actions and with nothing sent.
C3_Witness ==
    /\ \E i, j \in 1..Len(investors) :
          /\ investors[i].currentStep = 0 /\ PreviousStepDisabled(investors[i])
          /\ investors[j].currentStep = 6 /\ NextStepDisabled(investors[j])
    /\ budget < MaxActions
    /\ calls = EmptyBag

\* C4: whenever no write and no callback is pending, the local list is the
\* snapshot of the remote collection.
C4_ListEqualsStore ==
    (calls = EmptyBag /\ ~snapPending) => investors = QuerySnapshot(store)

\* new holds every element of old, in place, and holds c.
KeepsAndHolds(old, new, c) ==
    /\ Len(new) >= Len(old)
    /\ SubSeq(new, 1, Len(old)) = old
    /\ c \in Elements(new)

\* C5: a comment add, of this session or of another, leaves every comment the
\* record holds when it is applied in place and stores the added one, in
\* whatever order concurrent adds reach the store.
C5_AddKeepsComments ==
    [][/\ \A c \in BagToSet(calls) :
             (c.op = "addComment" /\ StoreAccepts(c)) =>
                KeepsAndHolds(store[c.id].comments, store'[c.id].comments,
                              c.comment)
       /\ \A id \in Ids, t \in Texts, r \in 0..MaxClock :
             RemoteAddComment(id, t, r) =>
                KeepsAndHolds(store[id].comments, store'[id].comments,
                              [id |-> r, text |-> t, date |-> r])]_vars

\* An add of this session and an add of another session have both been
\* applied to the record that already held a comment: it holds all three.
C5_Witness ==
    \E c \in Resolved("addComment") :
        /\ c.id \in DOMAIN store
        /\ Len(store[c.id].comments) = 3
        /\ store[c.id].comments[1] = OldComment
        /\ c.comment \in Elements(store[c.id].comments)
        /\ \E x \in Elements(store[c.id].comments) :
              x # c.comment /\ x # OldComment

\* C6: the write-back of a comment edit or delete stores the array computed
\* from what was read, whatever the record holds by then, and sets no error.
C6_WriteBackUnconditional ==
    [][\A c \in BagToSet(calls) :
          (c.op \in {"updComment", "delComment"} /\ StoreAccepts(c)) =>
             /\ store'[c.id].comments = c.comments
             /\ error' = error]_vars

\* A comment another writer committed between the read and the write-back
\* is gone from the store, and no error is set.
C6_Witness ==
    /\ \E c \in Resolved("updComment") \cup Resolved("delComment") :
          /\ c.id \in DOMAIN store
          /\ store[c.id].comments = c.comments
          /\ \E x \in lost : x \notin Elements(store[c.id].comments)
    /\ error = NULL

\* C7: typing into the edit dialog, Cancel, Edit and the Save click itself
\* change neither the store nor the local list; Save sends the draft, and
\* when the store applies it every field of the record is the draft's.
C7_EditCommitsDraftAtSave ==
    [][/\ ((\E n \in Names : TypeEditName(n)) \/ CancelEdit \/ SaveEdit
              \/ (\E i \in Cards : ClickEdit(i))) =>
             (store' = store /\ investors' = investors)
       /\ SaveEdit =>
             \A c \in BagToSet(calls') :
                CopiesIn(c, calls') > CopiesIn(c, calls) =>
                   /\ c.op = "edit" /\ c.pc = "sent"
                   /\ WithId(c.id, c.data) = editingInvestor[1]
       /\ \A c \in BagToSet(calls) :
             (c.op = "edit" /\ StoreAccepts(c)) =>
                /\ store'[c.id] = c.data
                /\ \A d \in DOMAIN store \ {c.id} : store'[d] = store[d]]_vars

\* A saved draft with a typed name is stored whole, its currentStep the one
\* captured when the dialog was opened although the list shows a later one.
C7_Witness ==
    \E c \in Resolved("edit") :
        /\ c.id \in DOMAIN store
        /\ store[c.id] = c.data
        /\ c.data.name = "n2"
        /\ \E i \in 1..Len(investors) :
              /\ investors[i].id = c.id
              /\ investors[i].currentStep # c.data.currentStep

\* The read or write invocation c awaits is rejected in this step: c is gone
\* without its promise having been fulfilled, and nothing is sent in its place.
Rejected(c) ==
    /\ c \in BagToSet(calls)
    /\ c.pc \in {"sent", "read"}
    /\ calls' = calls (-) SetToBag({c})

\* C8: when the store rejects a write of any handler, the error state is
\* non-null afterwards, nothing is sent again, and the local list and the
\* store are as before.
C8_RejectedWriteSetsError ==
    [][\A c \in BagToSet(calls) :
          Rejected(c) =>
             /\ error' # NULL
             /\ investors' = investors
             /\ store' = store]_vars

\* The save of an edit was rejected: the error is set, the dialog still open,
\* the list as delivered.
C8_Witness ==
    /\ error = "Failed to update investor. Please try again."
    /\ editingInvestor # <<>>
    /\ investors = QuerySnapshot(store)
    /\ calls = EmptyBag

\* C9, as stated: whichever write fails, the message set is the same one.
C9_SameMessage == [][(error # NULL /\ error' # NULL) => error' = error]_vars

Ops == {"add", "step", "status", "delete", "edit", "addComment", "updComment",
        "delComment"}

\* C9, amended: a failed write sets the message of its own operation, which
\* is the message of no other operation.
C9_MessagePerOperation ==
    [][\A c \in BagToSet(calls) :
          Rejected(c) =>
             /\ error' # NULL
             /\ \A op \in Ops \ {c.op} : error' # ErrorMessage(op)]_vars

\* A delete was confirmed and rejected: the message of the delete is set.
C9_Witness ==
    /\ error = "Failed to delete investor. Please try again."
    /\ budget = 0
    /\ calls = EmptyBag

\* C10: whenever the error state is non-null, some action sets it to null.
C10_Dismissible == error # NULL => ENABLED (NextAll /\ error' = NULL)

\* C11: the error state changes only in a step in which the store rejects a
\* read or write a handler awaits; a failing AI-service call leaves it alone.
C11_ErrorOnlyFromStore ==
    [][error' # error => \E c \in BagToSet(calls) : Rejected(c)]_vars

\* The handler of the resolved invocation c runs to its end in this step.
Finishes(c) ==
    /\ c \in BagToSet(calls)
    /\ c.pc = "resolved"
    /\ calls' = calls (-) SetToBag({c})

\* C12: showConfetti turns true only in the step in which a stage write of
\* step 6 that the store applied completes its handler, and does so in every
\* such step; a completed stage write of another step and a rejected stage
\* write leave it as it is.
C12_ConfettiOnFinalStepOnly ==
    [][/\ (~showConfetti /\ showConfetti') =>
             \E c \in BagToSet(calls) :
                c.op = "step" /\ c.step = 6 /\ Finishes(c)
       /\ \A c \in BagToSet(calls) :
             /\ (c.op = "step" /\ Finishes(c)) =>
                   IF c.step = 6 THEN showConfetti'
                                 ELSE showConfetti' = showConfetti
             /\ (c.op = "step" /\ Rejected(c)) =>
                   showConfetti' = showConfetti]_vars

\* A Next Step click at stage 5 was applied and completed: the effect shows
\* and its timeout is pending; a Previous Step click on the other record was
\* applied and completed as well.
C12_Witness ==
    /\ showConfetti
    /\ Len(timers) = 1
    /\ \E d, e \in DOMAIN store :
          store[d].currentStep = 6 /\ store[e].currentStep = 4
    /\ calls = EmptyBag

\* C13: while less than the 5 seconds of some trigger's timeout have passed,
\* the effect is showing.
C13_ShownUntilOwnTimeout ==
    \A k \in 1..Len(timers) : timers[k] > 0 => showConfetti

\* C15: a submission of the new-comment field holding the empty text or only
\* white space sends nothing and changes neither the store nor the list; any
\* other submission sends exactly one append, for the card's record, that
\* carries the text without the white space around it.
C15_SubmitTrimmedOrNothing ==
    [][\A i \in Cards, t \in TypedTexts :
          CommentSubmit(i, t) =>
             IF t \in {"", " "}
             THEN calls' = calls /\ store' = store /\ investors' = investors
             ELSE \E c \in BagToSet(calls') :
                     /\ calls' = calls (+) SetToBag({c})
                     /\ c.op = "addComment" /\ c.pc = "sent"
                     /\ c.id = investors[i].id
                     /\ <<t, c.comment.text>> \in
                           {<<"t1", "t1">>, <<" t2 ", "t2">>}]_vars

\* Two submissions were made, one append was sent, and the store applied it:
\* the record holds its old comment and the new one, with the trimmed text.
C15_Witness ==
    /\ budget = MaxAllActions - 2
    /\ \E c \in Resolved("addComment") :
          /\ calls = SetToBag({c})
          /\ c.comment.text = "t2"
          /\ store[c.id].comments = <<OldComment, c.comment>>

\* The positions of the local list the filter chosen lets through.
Matching ==
    {i \in 1..Len(investors) :
        filterStatus = "all" \/ investors[i].status = filterStatus}

\* C16: the displayed list holds exactly the records of the local list whose
\* status is the filter chosen, each once, and every record under "all".
C16_FilterExact ==
    /\ Len(sortedInvestors) = Cardinality(Matching)
    /\ \A i \in Matching : investors[i] \in Elements(sortedInvestors)
    /\ \A k \in 1..Len(sortedInvestors) :
          \E i \in Matching : sortedInvestors[k] = investors[i]
    /\ filterStatus = "all" => Len(sortedInvestors) = Len(investors)

\* The list holds a paused and an active record; the filter chosen is
\* paused and the paused record alone is displayed.
C16_Witness ==
    /\ filterStatus = "paused"
    /\ Len(investors) = 2
    /\ investors[1].status = "active" /\ investors[2].status = "paused"
    /\ sortedInvestors = <<investors[2]>>

\* C17: under the sort key investmentAmount the displayed list is a
\* permutation of the filtered list in which no record stands before one of
\* a larger amount, a record without amount counting as 0; and choosing a
\* filter or a sort key changes neither the local list nor the store.
C17_SortedByAmountDescending ==
    /\ [](sortBy = "investmentAmount" =>
             /\ Len(sortedInvestors) = Len(filteredInvestors)
             /\ Elements(sortedInvestors) = Elements(filteredInvestors)
             /\ \A j, k \in 1..Len(sortedInvestors) :
                   j < k =>
                      (IF "investmentAmount" \in DOMAIN sortedInvestors[j]
                       THEN sortedInvestors[j].investmentAmount ELSE 0)
                      >= (IF "investmentAmount" \in DOMAIN sortedInvestors[k]
                          THEN sortedInvestors[k].investmentAmount ELSE 0))
    /\ [][(sortBy' # sortBy \/ filterStatus' # filterStatus) =>
             (investors' = investors /\ store' = store)]_vars

\* The list is delivered with a record without amount before one of the
\* largest amount; under the sort key investmentAmount the display has them the other
\* way round, the list itself as delivered.
C17_Witness ==
    /\ sortBy = "investmentAmount" /\ filterStatus = "all"
    /\ Len(investors) = 2
    /\ "investmentAmount" \notin DOMAIN investors[1]
    /\ "investmentAmount" \in DOMAIN investors[2]
    /\ investors[2].investmentAmount = MaxAmount
    /\ investors = QuerySnapshot(store)
    /\ sortedInvestors = <<investors[2], investors[1]>>

\* C18: a click on the expand button of a card inverts the expanded flag of
\* the card's record, leaves the flag of every other record, the local list
\* and the store as they are, and a second toggle of the same record gives
\* every record the flag it had.
C18_ToggleFlipsOnlyItsCard ==
    /\ [][\A i \in Cards :
             ToggleCardExpansion(i) =>
                /\ ExpandedIn(expandedCards', sortedInvestors[i].id)
                      = ~ExpandedIn(expandedCards, sortedInvestors[i].id)
                /\ \A d \in Ids \ {sortedInvestors[i].id} :
                      ExpandedIn(expandedCards', d) = ExpandedIn(expandedCards, d)
                /\ investors' = investors
                /\ store' = store]_vars
    /\ [](\A id, d \in Ids :
             ExpandedIn(Toggled(Toggled(expandedCards, id), id), d)
                = ExpandedIn(expandedCards, d))

\* One card is expanded after one toggle, the other collapsed after two.
C18_Witness ==
    /\ \E d, e \in Ids :
          expandedCards[d] = "true" /\ expandedCards[e] = "false"
    /\ budget = 0
    /\ Len(investors) = 2

\* C19: a data-room stats fetch for a record is issued only in the step that
\* expands the record's card, and that step issues exactly one.
C19_FetchOnlyOnExpansion ==
    [][\A d \in Ids :
          /\ statsFetches'[d] # statsFetches[d] =>
                /\ ~ExpandedIn(expandedCards, d)
                /\ ExpandedIn(expandedCards', d)
          /\ (~ExpandedIn(expandedCards, d) /\ ExpandedIn(expandedCards', d)) =>
                statsFetches'[d] = statsFetches[d] + 1]_vars

\* C14: once a draft has been saved and no save is still under way, the
\* portfolio analysis, the likelihood and the suggested actions are all the
\* service's results for the draft the store applied last.
C14_FieldsOfLastSaved ==
    (lastSaved # <<>> /\ \A c \in BagToSet(calls) : c.op # "edit") =>
        /\ portfolioAnalysis = <<analyzeInvestorPortfolio(lastSaved[1])>>
        /\ investmentLikelihood = <<predictInvestmentLikelihood(lastSaved[1])>>
        /\ suggestedActions =
              <<suggestNextActions(lastSaved[1], lastSaved[1].currentStep)>>

\* C20: the dialog holds nothing or the id of a displayed card whose Delete
\* was clicked; Cancel sends nothing and changes neither store nor list; the
\* dialog's Delete sends one delete for the id the dialog holds and closes
\* the dialog, and no other step sends a delete; the store loses a record
\* only by applying such a delete, and loses that record alone; and when the
\* handler completes, that record alone leaves the local list.
C20_DeleteOnlyAfterConfirmation ==
    [][/\ (deleteConfirmation' # deleteConfirmation
              /\ deleteConfirmation' # NULL) =>
             \E i \in 1..Len(investors) :
                investors[i].id = deleteConfirmation'
       /\ CancelDelete =>
             /\ calls' = calls /\ store' = store /\ investors' = investors
             /\ deleteConfirmation' = NULL
       /\ ConfirmDelete =>
             /\ calls' = calls (+) SetToBag({Call("delete", "sent",
                                                  deleteConfirmation)})
             /\ deleteConfirmation' = NULL
             /\ store' = store /\ investors' = investors
       /\ \A c \in BagToSet(calls') :
             (c.op = "delete" /\ c.pc = "sent"
                 /\ CopiesIn(c, calls') > CopiesIn(c, calls)) =>
                /\ c.id = deleteConfirmation
                /\ CopiesIn(c, calls') = CopiesIn(c, calls) + 1
                /\ deleteConfirmation' = NULL
       /\ DOMAIN store' # DOMAIN store /\ DOMAIN store' \subseteq DOMAIN store =>
             \E c \in BagToSet(calls) :
                /\ c.op = "delete" /\ c.pc = "sent"
                /\ DOMAIN store' = DOMAIN store \ {c.id}
                /\ \A d \in DOMAIN store' : store'[d] = store[d]
       /\ \A c \in BagToSet(calls) :
             (c.op = "delete" /\ Finishes(c)) =>
                /\ Len(investors') =
                      Cardinality({i \in 1..Len(investors) :
                                      investors[i].id # c.id})
                /\ \A i \in 1..Len(investors) :
                      investors[i].id # c.id =>
                         investors[i] \in Elements(investors')
                /\ \A k \in 1..Len(investors') : investors'[k].id # c.id]_vars

\* A record was added and delivered, Delete was clicked on one of the two
\* cards and confirmed, the store applied the delete and the handler
\* completed before the subscription delivered: the list holds the other
\* record alone and the dialog is closed.
C20_Witness ==
    /\ usedIds = Ids
    /\ Cardinality(DOMAIN store) = Cardinality(Ids) - 1
    /\ calls = EmptyBag
    /\ snapPending
    /\ deleteConfirmation = NULL
    /\ Len(investors) = Cardinality(Ids) - 1
    /\ \A i \in 1..Len(investors) : investors[i].id \in DOMAIN store

\* C21: in every record, stored or in the local list, no two comments have
\* the same id.
C21_CommentIdsDistinct ==
    /\ \A d \in DOMAIN store :
          \A j, k \in 1..Len(store[d].comments) :
             j # k => store[d].comments[j].id # store[d].comments[k].id
    /\ \A i \in 1..Len(investors) :
          \A j, k \in 1..Len(investors[i].comments) :
             j # k => investors[i].comments[j].id # investors[i].comments[k].id

\* The add invocations that have not run to their end.
PendingAdds == {c \in BagToSet(calls) : c.op = "add"}

\* C22: at most one add is pending, isLoading is true exactly while one is,
\* and an add is sent only by a step that starts with a user signed in, the
\* three fields non-empty and no add pending, and carries the form.
C22_OneAddInFlight ==
    /\ [](/\ Cardinality(PendingAdds) <= 1
          /\ \A c \in PendingAdds : CopiesIn(c, calls) = 1
          /\ isLoading <=> PendingAdds # {})
    /\ [][\A c \in BagToSet(calls') :
             (c.op = "add" /\ c.pc = "sent"
                 /\ CopiesIn(c, calls') > CopiesIn(c, calls)) =>
                /\ user # NULL
                /\ newInvestor.name # "" /\ newInvestor.company # ""
                /\ newInvestor.email # ""
                /\ PendingAdds = {}
                /\ c.data = newInvestor]_vars

\* An add was rejected and the form, still filled in, was submitted again:
\* the error of the first is set, the second is pending and isLoading is true.
C22_Witness ==
    /\ error = "Failed to add investor. Please try again."
    /\ isLoading
    /\ \E c \in PendingAdds : c.data = newInvestor /\ newInvestor.name = "n2"
    /\ budget = 0

=============================================================================
